---------------------------- MODULE Spec2Model ----------------------------
(***************************************************************************)
(* News category classifier: the inference service (model_service.py),     *)
(* the request dispatcher (main.py), the text normalizer (utils.py) and    *)
(* the training script (train.py), as one state machine.                   *)
(*                                                                         *)
(* Texts are sequences of pieces.  A piece is an atomic chunk of           *)
(* characters: a word, one space, one digit, a URL, an HTML tag or an      *)
(* e-mail address.  Adjacent word pieces with no space between them form   *)
(* one token, as the characters of the real string would.                  *)
(*                                                                         *)
(* Probabilities are exact rationals: a distribution is a sequence of      *)
(* numerators over one common denominator (field "denom").                 *)
(***************************************************************************)
EXTENDS Integers, Sequences, FiniteSets, TLC

(***************************************************************************)
(* Bounds of the model.                                                    *)
(***************************************************************************)
\* the longest batch of articles sent to /batch-predict
MaxBatch == 3

\* the number of outcomes of the seeded train/test shuffle that are explored
NumSplits == 1

\* the longest text, in pieces, given to preprocess_text on its own
MaxTextLen == 3

\* the number of predict calls that run at the same time
MaxCalls == 2
MaxStages == 3
SynthRepeat == 2

(***************************************************************************)
(* Program constants.                                                      *)
(***************************************************************************)
CATEGORIES ==
  <<"Sports", "Politics", "Technology", "Entertainment", "Business", "Health", "Science">>

\* main.py: "Maximum 100 articles per request"
MaxArticles == 100

\* train.py: test_size=0.2, as the fraction 1/TestDen
TestDen == 5

(***************************************************************************)
(* Generic helpers on sequences.                                           *)
(***************************************************************************)
Range(s) == {s[i] : i \in 1..Len(s)}

RECURSIVE SumSeq(_)
SumSeq(s) == IF s = <<>> THEN 0 ELSE Head(s) + SumSeq(Tail(s))

RECURSIVE MaxSeq(_)
MaxSeq(s) ==
  IF Len(s) = 1 THEN s[1]
  ELSE LET m == MaxSeq(Tail(s)) IN IF Head(s) >= m THEN Head(s) ELSE m

RECURSIVE SelectSeqIdx(_, _)
\* the first index of s holding v (0 when absent)
SelectSeqIdx(s, v) ==
  IF s = <<>> THEN 0
  ELSE IF Head(s) = v THEN 1
  ELSE LET r == SelectSeqIdx(Tail(s), v) IN IF r = 0 THEN 0 ELSE r + 1

RECURSIVE Gcd(_, _)
Gcd(a, b) == IF b = 0 THEN a ELSE Gcd(b, a % b)

Lcm(a, b) == (a \div Gcd(a, b)) * b

RECURSIVE LcmSeq(_)
LcmSeq(s) == IF s = <<>> THEN 1 ELSE Lcm(Head(s), LcmSeq(Tail(s)))

RECURSIVE Pow(_, _)
Pow(b, e) == IF e = 0 THEN 1 ELSE b * Pow(b, e - 1)

(***************************************************************************)
(* Pieces of text.                                                         *)
(***************************************************************************)
SP == " "
DIGIT == "1"
URL == "http://x"
TAG == "<b>"
EMAIL == "a@b.co"

LowerWords ==
  {"game", "games", "vote", "chip", "film", "bank", "care", "atom", "war",
   "news", "the", "ox", "oxen"}

UpperWords == {"Game", "The"}

IsWordPiece(p) == p \in LowerWords \cup UpperWords

\* \w of the regular expressions: letters and digits
IsWordChar(p) == IsWordPiece(p) \/ p = DIGIT

\* number of characters of a lower-case word piece
PieceLen(p) == IF p = "ox" THEN 2 ELSE IF p \in {"the", "war"} THEN 3
               ELSE IF p = "games" THEN 5 ELSE 4

(***************************************************************************)
(* utils.py preprocess_text, step by step.                                 *)
(***************************************************************************)
\* text.lower()
LowerPiece(p) == IF p = "Game" THEN "game" ELSE IF p = "The" THEN "the" ELSE p

Lower(text) == [i \in 1..Len(text) |-> LowerPiece(text[i])]

RECURSIVE DropNonSpace(_)
\* the rest of the text from its first whitespace on (\S+ consumed)
DropNonSpace(text) ==
  IF text = <<>> THEN <<>>
  ELSE IF Head(text) = SP THEN text
  ELSE DropNonSpace(Tail(text))

RECURSIVE RemoveURLs(_)
\* re.sub(r'http\S+|www\S+|https\S+', '', text)
RemoveURLs(text) ==
  IF text = <<>> THEN <<>>
  ELSE IF Head(text) = URL THEN RemoveURLs(DropNonSpace(Tail(text)))
  ELSE <<Head(text)>> \o RemoveURLs(Tail(text))

\* re.sub(r'<[^>]+>', '', text)
RemoveTags(text) == SelectSeq(text, LAMBDA p : p # TAG)

RECURSIVE DropWordChars(_)
DropWordChars(text) ==
  IF text = <<>> THEN <<>>
  ELSE IF IsWordChar(Head(text)) THEN DropWordChars(Tail(text))
  ELSE text

RECURSIVE StripTrailingWordChars(_)
StripTrailingWordChars(out) ==
  IF out = <<>> THEN <<>>
  ELSE IF IsWordChar(out[Len(out)])
       THEN StripTrailingWordChars(SubSeq(out, 1, Len(out) - 1))
  ELSE out

RECURSIVE RemoveEmailsFrom(_, _)
\* the address takes the word characters that touch it on either side:
\* they match [\w\.-]+ before the @ and \w+ after the last dot
RemoveEmailsFrom(out, text) ==
  IF text = <<>> THEN out
  ELSE IF Head(text) = EMAIL
       THEN RemoveEmailsFrom(StripTrailingWordChars(out), DropWordChars(Tail(text)))
  ELSE RemoveEmailsFrom(Append(out, Head(text)), Tail(text))

\* re.sub(r'[\w\.-]+@[\w\.-]+\.\w+', '', text)
RemoveEmails(text) == RemoveEmailsFrom(<<>>, text)

\* re.sub(r'[^a-z\s]', '', text)
KeepLetters(text) == SelectSeq(text, LAMBDA p : p \in LowerWords \/ p = SP)

RECURSIVE CollapseSpaces(_)
\* re.sub(r'\s+', ' ', text)
CollapseSpaces(text) ==
  IF Len(text) < 2 THEN text
  ELSE IF text[1] = SP /\ text[2] = SP THEN CollapseSpaces(Tail(text))
  ELSE <<Head(text)>> \o CollapseSpaces(Tail(text))

RECURSIVE LStrip(_)
LStrip(text) ==
  IF text # <<>> /\ Head(text) = SP THEN LStrip(Tail(text)) ELSE text

RECURSIVE RStrip(_)
RStrip(text) ==
  IF text # <<>> /\ text[Len(text)] = SP
  THEN RStrip(SubSeq(text, 1, Len(text) - 1)) ELSE text

\* str.strip()
Strip(text) == LStrip(RStrip(text))

\* the five cleaning steps before tokenization (utils.py 47-62)
CleanText(text) ==
  Strip(CollapseSpaces(KeepLetters(RemoveEmails(RemoveTags(RemoveURLs(Lower(text)))))))

\* what ends a token: whitespace for nltk's tokenizer on a cleaned text, any
\* character outside \w for the vectorizer's token pattern
IsSep(p, byWord) == IF byWord THEN ~IsWordChar(p) ELSE p = SP

RECURSIVE SplitFrom(_, _, _)
\* the tokens of a text: maximal runs of pieces that are not separators
SplitFrom(cur, text, byWord) ==
  IF text = <<>> THEN (IF cur = <<>> THEN <<>> ELSE <<cur>>)
  ELSE IF IsSep(Head(text), byWord)
       THEN (IF cur = <<>> THEN <<>> ELSE <<cur>>) \o SplitFrom(<<>>, Tail(text), byWord)
  ELSE SplitFrom(Append(cur, Head(text)), Tail(text), byWord)

\* nltk word_tokenize on a cleaned text (letters and single spaces)
word_tokenize(text) == SplitFrom(<<>>, text, FALSE)

\* nltk stopwords.words('english'), as far as the modelled words go
stop_words == {<<"the">>}

\* len(token)
TokenLen(token) == SumSeq([i \in 1..Len(token) |-> PieceLen(token[i])])

\* WordNetLemmatizer.lemmatize: the shortest known base form, or the token itself
lemmatize(token) ==
  IF token = <<"games">> THEN <<"game">>
  ELSE IF token = <<"oxen">> THEN <<"ox">>
  ELSE token

RECURSIVE Join(_)
\* ' '.join(tokens)
Join(tokens) ==
  IF tokens = <<>> THEN <<>>
  ELSE IF Len(tokens) = 1 THEN tokens[1]
  ELSE tokens[1] \o <<SP>> \o Join(Tail(tokens))

\* utils.py preprocess_text.  punkt is whether nltk's tokenizer data is
\* installed: word_tokenize raises LookupError without it, and the except
\* branch returns the local variable text, by then the cleaned text.
preprocess_text(text, punkt) ==
  LET cleaned == CleanText(text)
      tokens == word_tokenize(cleaned)
      kept == SelectSeq(tokens, LAMBDA t : t \notin stop_words /\ TokenLen(t) > 2)
      lemmas == [i \in 1..Len(kept) |-> lemmatize(kept[i])]
      processed_text == Join(lemmas)
  IN IF ~punkt THEN cleaned
     ELSE IF processed_text # <<>> THEN processed_text ELSE cleaned

\* main.py: not text or len(text.strip()) == 0
IsBlank(text) == text = <<>> \/ Strip(text) = <<>>

(***************************************************************************)
(* Labels.  numpy sorts the class labels of a fitted classifier: strings   *)
(* in lexicographic order, integers in numeric order.  The integer labels  *)
(* of train_model are written "0".."6".                                    *)
(***************************************************************************)
IntLabels == <<"0", "1", "2", "3", "4", "5", "6">>

\* every label of the model, in sorted order
SortedLabels ==
  IntLabels \o <<"Business", "Entertainment", "Health", "Politics", "Science",
                 "Sports", "Technology", "World">>

\* sorted(set(labels)) / np.unique(labels)
Unique(labels) == SelectSeq(SortedLabels, LAMBDA l : l \in Range(labels))

\* isinstance(label, str): a numpy integer is not a str
IsStr(label) == label \notin Range(IntLabels)

(***************************************************************************)
(* sklearn TfidfVectorizer(stop_words='english') and MultinomialNB, by     *)
(* their documented behaviour.  Term weights are the term counts: the idf  *)
(* factor and the row normalisation only rescale the exponents below.      *)
(***************************************************************************)
\* sklearn's ENGLISH_STOP_WORDS, as far as the modelled words go
ENGLISH_STOP_WORDS == {<<"the">>}

\* TfidfVectorizer.build_analyzer: lower-case, tokens of two or more word
\* characters, stop words removed
analyzer(text) ==
  SelectSeq(SplitFrom(<<>>, Lower(text), TRUE),
            LAMBDA t : t \notin ENGLISH_STOP_WORDS
                       /\ (Len(t) > 1 \/ (t[1] # DIGIT /\ PieceLen(t[1]) > 1)))

\* number of occurrences of term in a token sequence
Count(tokens, term) == Len(SelectSeq(tokens, LAMBDA t : t = term))

NoneObject == [kind |-> "None", vocabulary_ |-> {}, classes_ |-> <<>>,
               class_count_ |-> <<>>, feature_count_ |-> <<>>, feature_total_ |-> <<>>,
               n_features_in_ |-> 0]

\* the width of the rows a vectorizer produces
NFeatures(vectorizer) == Cardinality(vectorizer.vocabulary_)

\* TfidfVectorizer(max_features=1000, stop_words='english'), not fitted
NewVectorizer == [NoneObject EXCEPT !.kind = "unfitted"]

\* MultinomialNB(), not fitted
NewClassifier == [NoneObject EXCEPT !.kind = "unfitted"]

\* vectorizer.fit: the vocabulary is every term of the training texts (the
\* max_features cap of 1000 is never reached by the modelled corpora)
FitVectorizer(texts) ==
  [NewVectorizer EXCEPT
     !.kind = "fitted",
     !.vocabulary_ = UNION {Range(analyzer(texts[i])) : i \in 1..Len(texts)}]

\* vectorizer.transform([text])[0], as a sparse row: the terms of the text
\* that are in the vocabulary, each as often as it occurs.  Terms outside
\* the vocabulary are dropped.
Transform(vectorizer, text) ==
  SelectSeq(analyzer(text), LAMBDA t : t \in vectorizer.vocabulary_)

RECURSIVE SumFun(_, _)
\* the sum of f over the set S
SumFun(f, S) ==
  IF S = {} THEN 0
  ELSE LET t == CHOOSE u \in S : TRUE IN f[t] + SumFun(f, S \ {t})

\* MultinomialNB.fit: classes_ sorted, documents per class, term counts per
\* class, and the smoothed total of each class (alpha = 1), the denominator
\* of its feature_log_prob_
FitClassifier(vectorizer, texts, labels) ==
  LET classes == Unique(labels)
      V == vectorizer.vocabulary_
      docs == [i \in 1..Len(texts) |-> analyzer(texts[i])] \o <<>>
      rows(c) == {i \in 1..Len(texts) : labels[i] = c}
      counts(c) == LET R == rows(c)
                   IN [t \in V |-> SumFun([i \in R |-> Count(docs[i], t)], R)]
      fc == [k \in 1..Len(classes) |-> counts(classes[k])] \o <<>>
  IN [NewClassifier EXCEPT
        !.kind = "fitted",
        !.classes_ = classes,
        !.class_count_ = [k \in 1..Len(classes) |-> Cardinality(rows(classes[k]))],
        !.feature_count_ = fc,
        !.n_features_in_ = Cardinality(V),
        !.feature_total_ = [k \in 1..Len(classes) |-> SumFun(fc[k], V) + Cardinality(V)]]

RECURSIVE Likelihood(_, _)
\* the product over the terms t of the row x of (f[t] + 1)
Likelihood(f, x) ==
  IF x = <<>> THEN 1 ELSE (f[Head(x)] + 1) * Likelihood(f, Tail(x))

\* MultinomialNB.predict_proba(x)[0]: the posterior of class k is
\* proportional to prior_k * PROD_t ((count_kt + 1) / total_k) ^ x_t.
\* The result is the sequence of numerators, aligned with classes_, over the
\* common denominator PosteriorDenom.
predict_proba(classifier, x) ==
  LET L == LcmSeq(classifier.feature_total_)
  IN [k \in 1..Len(classifier.classes_) |->
        classifier.class_count_[k]
          * Likelihood(classifier.feature_count_[k], x)
          * Pow(L \div classifier.feature_total_[k], Len(x))] \o <<>>

PosteriorDenom(probabilities) == SumSeq(probabilities)

\* np.argmax: the first index of the largest value
ArgMax(s) == SelectSeqIdx(s, MaxSeq(s))

\* MultinomialNB.predict(x)[0] == classes_[argmax of the joint likelihood]
predict_label(classifier, x) ==
  classifier.classes_[ArgMax(predict_proba(classifier, x))]

(***************************************************************************)
(* Training corpora: rows of (text, category).                             *)
(***************************************************************************)
Keyword(label) ==
  CASE label = "Sports" -> "game"
    [] label = "Politics" -> "vote"
    [] label = "Technology" -> "chip"
    [] label = "Entertainment" -> "film"
    [] label = "Business" -> "bank"
    [] label = "Health" -> "care"
    [] label = "Science" -> "atom"
    [] OTHER -> "war"

\* the rows of one category: TestDen of them, so that the stratified split
\* holds one of them out
DocsOf(label) ==
  LET kw == Keyword(label)
  IN << [text |-> <<kw>>, category |-> label],
        [text |-> <<kw, SP, "news">>, category |-> label],
        [text |-> <<kw, SP, kw>>, category |-> label],
        [text |-> <<"The", SP, kw>>, category |-> label],
        [text |-> <<"news", SP, "The", SP, kw>>, category |-> label] >>

RECURSIVE CorpusOf(_)
CorpusOf(labels) ==
  IF labels = <<>> THEN <<>> ELSE DocsOf(Head(labels)) \o CorpusOf(Tail(labels))

\* train.py _get_sample_data: the built-in rows of the seven CATEGORIES
SampleData == CorpusOf(CATEGORIES)

\* a data file: absent, or a table of rows
NoFile == [exists |-> FALSE, rows |-> <<>>]
CsvFile(rows) == [exists |-> TRUE, rows |-> rows]

\* the data files training is run on: none, the seven categories
\* (download_data.py), a curated corpus with the category World
\* (normalize_categories), and a corpus in which Science has no rows
CsvFiles ==
  { NoFile,
    CsvFile(CorpusOf(CATEGORIES)),
    CsvFile(CorpusOf(CATEGORIES \o <<"World">>)),
    CsvFile(CorpusOf(SubSeq(CATEGORIES, 1, 6))) }

\* train.py load_data: the rows of the file, or the sample data
load_data(csv_file) == IF csv_file.exists THEN csv_file.rows ELSE SampleData

Texts(rows) == [i \in 1..Len(rows) |-> rows[i].text]
Labels(rows) == [i \in 1..Len(rows) |-> rows[i].category]

\* the position of row i among the rows of its own category
RankInClass(labels, i) == Cardinality({j \in 1..i : labels[j] = labels[i]})

\* train_test_split(test_size=0.2, random_state=42, stratify=labels): one row
\* in TestDen of every category is held out.  Which one the seeded shuffle
\* picks is left open: seed chooses the residue of the held-out ranks.
IsTestRow(labels, i, seed) == RankInClass(labels, i) % TestDen = seed % TestDen

TrainRows(rows, seed) ==
  SelectSeq([i \in 1..Len(rows) |-> [row |-> rows[i], i |-> i]],
            LAMBDA r : ~IsTestRow(Labels(rows), r.i, seed))

TestRows(rows, seed) ==
  SelectSeq([i \in 1..Len(rows) |-> [row |-> rows[i], i |-> i]],
            LAMBDA r : IsTestRow(Labels(rows), r.i, seed))

\* train.py train: fit the pipeline on the training split, score it on the
\* held-out split
train(rows, seed) ==
  LET tr == TrainRows(rows, seed)
      te == TestRows(rows, seed)
      X_train == [i \in 1..Len(tr) |-> tr[i].row.text]
      y_train == [i \in 1..Len(tr) |-> tr[i].row.category]
      tfidf == FitVectorizer(X_train)
      classifier == FitClassifier(tfidf, X_train, y_train)
      hits == {i \in 1..Len(te) :
                 predict_label(classifier, Transform(tfidf, te[i].row.text))
                   = te[i].row.category}
  IN [pipeline |-> [kind |-> "pipeline", tfidf |-> tfidf, classifier |-> classifier],
      metrics |-> [saved |-> TRUE, correct |-> Cardinality(hits),
                   train_size |-> Len(tr), test_size |-> Len(te)]]

(***************************************************************************)
(* The model directory.                                                    *)
(***************************************************************************)
NoModelFile == [kind |-> "missing", tfidf |-> NoneObject, classifier |-> NoneObject]
NoMetrics == [saved |-> FALSE, correct |-> 0, train_size |-> 0, test_size |-> 0]

\* a file joblib.dump has opened for writing and not yet closed
PartialFile == [kind |-> "partial", tfidf |-> NoneObject, classifier |-> NoneObject]

\* joblib.dump(self.sklearn_model, ".../sklearn_model.joblib"): the bare classifier
ClassifierFile(classifier) ==
  [kind |-> "classifier", tfidf |-> NoneObject, classifier |-> classifier]

(***************************************************************************)
(* model_service.py NewsClassifierService.                                 *)
(***************************************************************************)
\* _load_sklearn_model and the handler of _load_models around it: the
\* (vectorizer, sklearn_model) fields after loading the file
LoadSklearnModel(model_file) ==
  CASE model_file.kind = "missing" ->
         \* _create_default_sklearn_model
         [vectorizer |-> NewVectorizer, sklearn_model |-> NewClassifier]
    [] model_file.kind = "pipeline" ->
         [vectorizer |-> model_file.tfidf, sklearn_model |-> model_file.classifier]
    [] OTHER ->
         \* a bare classifier has no named_steps (AttributeError) and a
         \* file that is not whole does not unpickle: the exception is
         \* re-raised and swallowed by _load_models before either field is
         \* assigned
         [vectorizer |-> NoneObject, sklearn_model |-> NoneObject]

\* the result of a predict call: a dictionary, or the exception raised
Raised(error) ==
  [ok |-> FALSE, error |-> error, category |-> "", confidence |-> 0,
   confidence_scores |-> <<>>, denom |-> 1, model_type |-> ""]

Returned(category, confidence, confidence_scores, denom, model_type) ==
  [ok |-> TRUE, error |-> "", category |-> category, confidence |-> confidence,
   confidence_scores |-> confidence_scores, denom |-> denom, model_type |-> model_type]

RECURSIVE InsertByScore(_, _)
\* e goes before the first entry with a smaller score
InsertByScore(sorted, e) ==
  IF sorted = <<>> THEN <<e>>
  ELSE IF Head(sorted).score < e.score THEN <<e>> \o sorted
  ELSE <<Head(sorted)>> \o InsertByScore(Tail(sorted), e)

RECURSIVE SortByScore(_)
\* dict(sorted(items, key=score, reverse=True)): stable, descending
SortByScore(entries) ==
  IF entries = <<>> THEN <<>>
  ELSE InsertByScore(SortByScore(SubSeq(entries, 1, Len(entries) - 1)),
                     entries[Len(entries)])

\* the dict comprehension of _predict_sklearn: CATEGORIES[i] -> probabilities[i]
ConfidenceScores(probabilities) ==
  [i \in 1..Len(CATEGORIES) |-> [label |-> CATEGORIES[i], score |-> probabilities[i]]]

\* a _predict_sklearn that answers with the first category when the model
\* cannot
predict_sklearn_guess(vectorizer, sklearn_model, text) ==
  IF vectorizer.kind # "fitted" \/ sklearn_model.kind # "fitted"
  THEN Returned(CATEGORIES[1], 0, <<>>, 1, "sklearn")
  ELSE IF NFeatures(vectorizer) # sklearn_model.n_features_in_
  THEN Raised("ValueError: X has a different number of features")
  ELSE LET x == Transform(vectorizer, text)
           prediction == predict_label(sklearn_model, x)
           probabilities == predict_proba(sklearn_model, x)
       IN IF Len(probabilities) < Len(CATEGORIES)
          THEN Raised("IndexError")
          ELSE Returned(prediction, MaxSeq(probabilities),
                        SortByScore(ConfidenceScores(probabilities)),
                        PosteriorDenom(probabilities), "sklearn")

\* _predict_sklearn
predict_sklearn(vectorizer, sklearn_model, text) ==
  IF sklearn_model.kind = "None" \/ vectorizer.kind = "None"
  THEN Raised("ValueError: Sklearn model not initialized")
  ELSE IF vectorizer.kind # "fitted" \/ sklearn_model.kind # "fitted"
  THEN Raised("NotFittedError")
  ELSE IF NFeatures(vectorizer) # sklearn_model.n_features_in_
  THEN Raised("ValueError: X has a different number of features")
  ELSE LET x == Transform(vectorizer, text)
           prediction == predict_label(sklearn_model, x)
           probabilities == predict_proba(sklearn_model, x)
       IN IF Len(probabilities) < Len(CATEGORIES)
          THEN Raised("IndexError")
          ELSE Returned(prediction, MaxSeq(probabilities),
                        SortByScore(ConfidenceScores(probabilities)),
                        PosteriorDenom(probabilities), "sklearn")

\* what the zero-shot pipeline does when called: it raises, or it returns
\* the candidate labels and their scores (in thousandths), best first
ExtRaises == [raises |-> TRUE, labels |-> <<>>, scores |-> <<>>]

ExtAnswer(labels, scores) == [raises |-> FALSE, labels |-> labels, scores |-> scores]

ExtOutcomes ==
  { ExtRaises,
    ExtAnswer(<<"Politics", "Sports", "Science", "Health", "Business",
                "Technology", "Entertainment">>,
              <<910, 640, 300, 120, 80, 40, 10>>) }

\* an outcome for the calls that never reach the zero-shot pipeline
NoExt == ExtRaises

\* a _predict_transformer whose except clause raises again
predict_transformer_reraise(vectorizer, sklearn_model, text, ext) ==
  IF ext.raises
  THEN Raised("Exception: zero-shot call failed")
  ELSE Returned(ext.labels[1], ext.scores[1],
                [i \in 1..Len(ext.labels) |->
                   [label |-> ext.labels[i], score |-> ext.scores[i]]],
                1000, "transformer")

\* a _predict_transformer that lists the scores in the order of CATEGORIES
predict_transformer_by_category(vectorizer, sklearn_model, text, ext) ==
  IF ext.raises
  THEN predict_sklearn(vectorizer, sklearn_model, text)
  ELSE Returned(ext.labels[1], ext.scores[1],
                [i \in 1..Len(CATEGORIES) |->
                   [label |-> CATEGORIES[i],
                    score |-> ext.scores[SelectSeqIdx(ext.labels, CATEGORIES[i])]]],
                1000, "transformer")

\* _predict_transformer
predict_transformer(vectorizer, sklearn_model, text, ext) ==
  IF ext.raises
  THEN \* except Exception: return self._predict_sklearn(text)
       predict_sklearn(vectorizer, sklearn_model, text)
  ELSE Returned(ext.labels[1], ext.scores[1],
                [i \in 1..Len(ext.labels) |->
                   [label |-> ext.labels[i], score |-> ext.scores[i]]],
                1000, "transformer")

\* a predict that refuses a request for a backend that is not loaded
predict_strict(vectorizer, sklearn_model, transformer_model, text, model_type, ext) ==
  IF model_type = "transformer"
  THEN IF transformer_model
       THEN predict_transformer(vectorizer, sklearn_model, text, ext)
       ELSE Raised("ValueError: Transformer model not initialized")
  ELSE predict_sklearn(vectorizer, sklearn_model, text)

\* predict (processing_time, the wall-clock time of the call, is left out)
predict(vectorizer, sklearn_model, transformer_model, text, model_type, ext) ==
  IF model_type = "transformer" /\ transformer_model
  THEN predict_transformer(vectorizer, sklearn_model, text, ext)
  ELSE predict_sklearn(vectorizer, sklearn_model, text)

(***************************************************************************)
(* main.py: the request dispatcher.                                        *)
(***************************************************************************)
\* one item of a response: a PredictionResponse, or the error record
\* {"error": ..., "text": ...} of /batch-predict.  input_text is the text
\* the item is about (the code sends its first 100 characters).
PredictionEntry(result, input_text) ==
  [is_error |-> FALSE, error |-> "", category |-> result.category,
   confidence |-> result.confidence, confidence_scores |-> result.confidence_scores,
   denom |-> result.denom, input_text |-> input_text]

ErrorEntry(error, input_text) ==
  [is_error |-> TRUE, error |-> error, category |-> "", confidence |-> 0,
   confidence_scores |-> <<>>, denom |-> 1, input_text |-> input_text]

\* the end of the try blocks of the three endpoints: PredictionResponse(...)
\* of the result of predict, whose field category: str rejects a numpy
\* integer.  Any exception gives an error entry.
Respond(result, input_text) ==
  IF ~result.ok THEN ErrorEntry(result.error, input_text)
  ELSE IF ~IsStr(result.category) THEN ErrorEntry("ValidationError", input_text)
  ELSE PredictionEntry(result, input_text)

\* the record of one invocation of classifier_service.predict
Call(raw, text, model_type, ext, result) ==
  [raw |-> raw, text |-> text, model_type |-> model_type, ext |-> ext,
   result |-> result]

Article(text, model_type, ext) == [text |-> text, model_type |-> model_type, ext |-> ext]

Response(status, predictions, successful) ==
  [status |-> status, predictions |-> predictions, total |-> Len(predictions),
   successful |-> successful]

\* len([r for r in results if "error" not in r])
Successful(results) == Len(SelectSeq(results, LAMBDA r : ~r.is_error))

NoRequest == [endpoint |-> "", utf8 |-> TRUE, articles |-> <<>>]
NoResponse == Response(0, <<>>, 0)

\* the texts requests carry
RawTexts ==
  { <<>>, <<SP>>, <<DIGIT>>, <<"The", SP, "games">>, <<"war", SP, "news">> }

\* the articles of single requests: the zero-shot outcome matters only to
\* the calls that ask for the transformer
Articles ==
  {Article(t, "sklearn", NoExt) : t \in RawTexts}
    \cup {Article(t, "transformer", e) : t \in RawTexts, e \in ExtOutcomes}

\* the articles batches are made of
BatchArticles ==
  { Article(<<"The", SP, "games">>, "sklearn", NoExt),
    Article(<<>>, "sklearn", NoExt),
    Article(<<"war", SP, "news">>, "transformer",
            ExtAnswer(<<"Politics", "Sports", "Science", "Health", "Business",
                        "Technology", "Entertainment">>,
                      <<910, 640, 300, 120, 80, 40, 10>>)) }

\* the batches: every sequence of at most MaxBatch of them
Batches == UNION {[1..n -> BatchArticles] : n \in 0..MaxBatch}

\* train_model is given texts with the index of their category as label
IndexRows ==
  LET rows == [k \in 1..Len(CATEGORIES) |-> DocsOf(CATEGORIES[k])[2]]
  IN [i \in 1..Len(rows) |->
        [text |-> rows[i].text,
         category |-> IntLabels[SelectSeqIdx(CATEGORIES, rows[i].category)]]]

\* train_model, lines 225-228: fit the vectorizer, then the classifier, on
\* all the rows
train_model(rows) ==
  LET v == FitVectorizer(Texts(rows))
  IN [vectorizer |-> v, sklearn_model |-> FitClassifier(v, Texts(rows), Labels(rows))]

(***************************************************************************)
(* State.                                                                  *)
(***************************************************************************)
VARIABLES
  model_file,        \* models/sklearn_model.joblib
  vectorizer_file,   \* models/vectorizer.joblib (the vectorizer, kind "None" when absent)
  metrics_file,      \* models/metrics.joblib
  punkt,             \* whether nltk's tokenizer data is installed
  classifier_service,\* main.py's global: TRUE once the service object exists
  vectorizer,        \* self.vectorizer
  sklearn_model,     \* self.sklearn_model
  transformer_model, \* self.transformer_model: TRUE when the pipeline is loaded
  pc,                \* "idle", or "done" when a request has been answered
  request,           \* the request answered
  calls,             \* the invocations of classifier_service.predict it made
  response,          \* its response
  normalized,        \* the last run of preprocess_text on its own
  threads,           \* the predict calls running at the same time, by statement
  trainer,           \* a run of train_model beside the handlers, by statement
  saver,             \* a run of train.py beside a starting service, by statement
  corpus_file,       \* data/news_data_combined.csv
  curator,           \* what the last curator stage left behind
  loaded             \* the last call of load_data with its default argument

disk == <<model_file, vectorizer_file, metrics_file>>
service == <<classifier_service, vectorizer, sklearn_model, transformer_model>>
exchange == <<pc, request, calls, response>>

\* what the handlers of the service and the training script leave alone
curation == <<corpus_file, curator>>
elsewhere == <<normalized, threads, trainer, saver, curation, loaded>>

vars == <<model_file, vectorizer_file, metrics_file, punkt, classifier_service,
          vectorizer, sklearn_model, transformer_model, pc, request, calls, response,
          normalized, threads, trainer, saver, curation, loaded>>

\* a thread that runs no predict call: at, the statement it is at; x,
\* prediction and result, the locals of the call
NoThread ==
  [at |-> "idle", text |-> <<>>, model_type |-> "", ext |-> NoExt,
   x |-> <<>>, prediction |-> "", result |-> Raised("")]

\* the two fields of the service that make its statistical model
Pair(tfidf, classifier) ==
  [vectorizer |-> tfidf, sklearn_model |-> classifier]

\* no run of train_model: at, the statement it is at; old and new, the
\* model of the service before the run and the model the run fits
NoTrainer ==
  [at |-> "idle", old |-> Pair(NoneObject, NoneObject),
   new |-> Pair(NoneObject, NoneObject)]

\* no run of train.py: old and new, the model file before the run and the
\* pipeline and metrics the run saves
NoSaver ==
  [at |-> "idle", old |-> NoModelFile,
   new |-> [pipeline |-> NoModelFile, metrics |-> NoMetrics]]

\* no corpus file, and no curator stage run: stages, the number of runs;
\* stage, the last one that wrote; min_support, the minimum the corpus was
\* combined with; given and kept, the rows its drop_duplicates was given
\* and the positions in them of the rows it wrote; rerun, whether the
\* stage ran on the file its own last run wrote; before, the file it read;
\* last, the last run, whether or not it wrote: its stage, the files it
\* was handed and whether it ended without raising
NoCorpus == [exists |-> FALSE, columns |-> {}, rows |-> <<>>]
NoStage ==
  [stages |-> 0, stage |-> "", min_support |-> 0, given |-> <<>>, kept |-> <<>>,
   rerun |-> FALSE, before |-> NoCorpus,
   last |-> [stage |-> "", datasets |-> <<>>, ok |-> FALSE]]

\* no call of load_data yet: csv_file, the name of the file it looked for;
\* sample, whether it returned the sample data; curated, whether the
\* curator's corpus file existed
NoLoad == [called |-> FALSE, csv_file |-> "", sample |-> FALSE, curated |-> FALSE]

\* no run of preprocess_text yet
NoRun == [ran |-> FALSE, failed |-> FALSE, input |-> <<>>, output |-> <<>>,
          again |-> <<>>]

Init ==
  /\ model_file = NoModelFile
  /\ vectorizer_file = NoneObject
  /\ metrics_file = NoMetrics
  /\ punkt \in BOOLEAN
  /\ classifier_service = FALSE
  /\ vectorizer = NoneObject
  /\ sklearn_model = NoneObject
  /\ transformer_model = FALSE
  /\ pc = "idle"
  /\ request = NoRequest
  /\ calls = <<>>
  /\ response = NoResponse
  /\ normalized = NoRun
  /\ threads = [id \in 1..MaxCalls |-> NoThread]
  /\ trainer = NoTrainer
  /\ saver = NoSaver
  /\ corpus_file = NoCorpus
  /\ curator = NoStage
  /\ loaded = NoLoad

(***************************************************************************)
(* train.py main: load_data, train, save_model.  The script is run between *)
(* two service processes: the service reads the model file at startup      *)
(* only, so a run beside a live service shows at the next startup.         *)
(***************************************************************************)
TrainMain(csv_file, seed) ==
  /\ pc = "idle"
  /\ ~classifier_service
  /\ LET out == train(load_data(csv_file), seed)
     IN /\ model_file' = out.pipeline
        /\ metrics_file' = out.metrics
  /\ UNCHANGED <<vectorizer_file, punkt, service, exchange, elsewhere>>

(***************************************************************************)
(* main.py startup_event: NewsClassifierService() and its _load_models.    *)
(* available: whether the zero-shot pipeline can be built.                 *)
(***************************************************************************)
Startup(available) ==
  /\ pc = "idle"
  /\ ~classifier_service
  /\ classifier_service' = TRUE
  /\ vectorizer' = LoadSklearnModel(model_file).vectorizer
  /\ sklearn_model' = LoadSklearnModel(model_file).sklearn_model
  /\ transformer_model' = available
  /\ UNCHANGED <<disk, punkt, exchange, elsewhere>>

\* the process ends: the global and the loaded models go with it
Shutdown ==
  /\ pc = "idle"
  /\ classifier_service
  /\ classifier_service' = FALSE
  /\ vectorizer' = NoneObject
  /\ sklearn_model' = NoneObject
  /\ transformer_model' = FALSE
  /\ UNCHANGED <<disk, punkt, exchange, elsewhere>>

(***************************************************************************)
(* model_service.py train_model.  On a service whose vectorizer is None    *)
(* the first statement raises and nothing changes.                         *)
(***************************************************************************)
TrainModel(rows) ==
  /\ pc = "idle"
  /\ classifier_service
  /\ vectorizer.kind # "None" /\ sklearn_model.kind # "None"
  /\ LET out == train_model(rows)
     IN /\ vectorizer' = out.vectorizer
        /\ sklearn_model' = out.sklearn_model
        /\ model_file' = ClassifierFile(out.sklearn_model)
        /\ vectorizer_file' = out.vectorizer
  /\ UNCHANGED <<metrics_file, punkt, classifier_service, transformer_model, exchange, elsewhere>>

\* lines 119-125, 161-162 and 219-220: preprocess_text, then
\* classifier_service.predict on its result
PredictCall(article) ==
  LET processed_text == preprocess_text(article.text, punkt)
  IN Call(article.text, processed_text, article.model_type, article.ext,
          predict(vectorizer, sklearn_model, transformer_model,
                  processed_text, article.model_type, article.ext))

(***************************************************************************)
(* POST /predict                                                           *)
(***************************************************************************)
PredictCategory(article) ==
  /\ pc = "idle"
  /\ pc' = "done"
  /\ request' = [endpoint |-> "/predict", utf8 |-> TRUE, articles |-> <<article>>]
  /\ IF ~classifier_service
     THEN calls' = <<>> /\ response' = Response(503, <<>>, 0)
     ELSE IF IsBlank(article.text)
     THEN calls' = <<>> /\ response' = Response(400, <<>>, 0)
     ELSE LET call == PredictCall(article)
              entry == Respond(call.result, article.text)
          IN /\ calls' = <<call>>
             /\ response' = IF entry.is_error THEN Response(500, <<>>, 0)
                            ELSE Response(200, <<entry>>, 1)
  /\ UNCHANGED <<disk, punkt, service, elsewhere>>

(***************************************************************************)
(* POST /predict-file.  utf8: whether the uploaded bytes decode; text:     *)
(* their decoded text.  The HTTPException(400) for an empty file is raised *)
(* inside the try block and caught by its except Exception handler.        *)
(***************************************************************************)
PredictFromFile(utf8, text) ==
  /\ pc = "idle"
  /\ pc' = "done"
  /\ request' = [endpoint |-> "/predict-file", utf8 |-> utf8,
                 articles |-> <<Article(text, "sklearn", NoExt)>>]
  /\ IF ~classifier_service
     THEN calls' = <<>> /\ response' = Response(503, <<>>, 0)
     ELSE IF ~utf8
     THEN calls' = <<>> /\ response' = Response(400, <<>>, 0)
     ELSE IF IsBlank(text)
     THEN calls' = <<>> /\ response' = Response(500, <<>>, 0)
     ELSE LET call == PredictCall(Article(text, "sklearn", NoExt))
              entry == Respond(call.result, text)
          IN /\ calls' = <<call>>
             /\ response' = IF entry.is_error THEN Response(500, <<>>, 0)
                            ELSE Response(200, <<entry>>, 1)
  /\ UNCHANGED <<disk, punkt, service, elsewhere>>

(***************************************************************************)
(* POST /batch-predict.  The handler has no await: it runs from its first  *)
(* statement to its return with no other handler in between.               *)
(***************************************************************************)
RECURSIVE BatchLoopAbort(_)
\* a loop that ends at the first turn whose call raises
BatchLoopAbort(articles) ==
  IF articles = <<>> THEN <<>>
  ELSE LET call == PredictCall(Head(articles))
       IN IF call.result.ok
          THEN <<call>> \o BatchLoopAbort(Tail(articles))
          ELSE <<call>>

RECURSIVE BatchLoop(_)
\* for article in articles: the call of each turn of the loop, whose try
\* block catches every exception of the turn
BatchLoop(articles) ==
  IF articles = <<>> THEN <<>>
  ELSE <<PredictCall(Head(articles))>> \o BatchLoop(Tail(articles))

BatchPredict(articles) ==
  /\ pc = "idle"
  /\ pc' = "done"
  /\ request' = [endpoint |-> "/batch-predict", utf8 |-> TRUE, articles |-> articles]
  /\ IF ~classifier_service
     THEN calls' = <<>> /\ response' = Response(503, <<>>, 0)
     ELSE IF Len(articles) > MaxArticles
     THEN calls' = <<>> /\ response' = Response(400, <<>>, 0)
     ELSE LET made == BatchLoop(articles)
              results == [i \in 1..Len(made) |-> Respond(made[i].result, made[i].raw)]
          IN /\ calls' = made
             /\ response' = Response(200, results, Successful(results))
  /\ UNCHANGED <<disk, punkt, service, elsewhere>>

\* GET /health: the response, which reads the global and changes nothing
health_check ==
  [status |-> IF classifier_service THEN "healthy" ELSE "unhealthy",
   model_loaded |-> classifier_service,
   available_models |-> <<"sklearn", "transformer">>]

\* the client has its response: the dispatcher waits for the next request
Deliver ==
  /\ pc = "done"
  /\ pc' = "idle"
  /\ request' = NoRequest
  /\ calls' = <<>>
  /\ response' = NoResponse
  /\ UNCHANGED <<disk, punkt, service, elsewhere>>

Next ==
  \/ \E f \in CsvFiles, seed \in 1..NumSplits : TrainMain(f, seed)
  \/ \E available \in BOOLEAN : Startup(available)
  \/ Shutdown
  \/ TrainModel(IndexRows)
  \/ \E a \in Articles : PredictCategory(a)
  \/ \E t \in RawTexts : PredictFromFile(TRUE, t)
  \/ PredictFromFile(FALSE, <<>>)
  \/ \E b \in Batches : BatchPredict(b)
  \/ Deliver

Spec == Init /\ [][Next]_vars

(***************************************************************************)
(* preprocess_text on its own, on every text of at most MaxTextLen pieces. *)
(***************************************************************************)
\* the pieces of those texts
TextPieces == {SP, DIGIT, URL, TAG, EMAIL, "The", "oxen", "game", "games"}

TextsUpTo(n) == UNION {[1..k -> TextPieces] : k \in 0..n}

\* one call of preprocess_text and a second call on its result.  failed:
\* word_tokenize raised, so the except branch produced the result.  The
\* function keeps no state: one run from the initial state shows them all.
Normalize(text) ==
  /\ ~normalized.ran
  /\ normalized' =
       [ran |-> TRUE, failed |-> ~punkt, input |-> text,
        output |-> preprocess_text(text, punkt),
        again |-> preprocess_text(preprocess_text(text, punkt), punkt)]
  /\ UNCHANGED <<disk, punkt, service, exchange, threads, trainer, saver, curation, loaded>>

NextNormalize == \E text \in TextsUpTo(MaxTextLen) : Normalize(text)

SpecNormalize == Init /\ [][NextNormalize]_vars

(***************************************************************************)
(* predict, statement by statement, in MaxCalls threads at once.  Every    *)
(* step reads the fields of the service and writes the locals of its own   *)
(* call only.                                                              *)
(***************************************************************************)
\* the calls made at the same time: the text is the processed text
CallArticles ==
  { Article(<<"game">>, "sklearn", NoExt),
    Article(<<"war", SP, "news">>, "transformer", ExtRaises),
    Article(<<"war", SP, "news">>, "transformer",
            ExtAnswer(<<"Politics", "Sports", "Science", "Health", "Business",
                        "Technology", "Entertainment">>,
                      <<910, 640, 300, 120, 80, 40, 10>>)) }

\* a text_vector kept in one place for every call, as an attribute of the
\* service would be
WithSharedVector(running, id, x) ==
  [j \in DOMAIN running |->
     IF j = id THEN [running[j] EXCEPT !.x = x, !.at = "predict"]
     ELSE [running[j] EXCEPT !.x = x]]

\* text_vector = ...: a local of the call
WithVector(running, id, x) ==
  [running EXCEPT ![id].x = x, ![id].at = "predict"]

\* the call ends: it returns result, or raises
Ended(running, id, result) ==
  [running EXCEPT ![id].result = result, ![id].at = "ended"]

\* predict, lines 126-129: the choice of the backend
CallBegin(id, article) ==
  /\ classifier_service
  /\ threads[id].at = "idle"
  /\ threads' =
       [threads EXCEPT ![id] =
          [NoThread EXCEPT
             !.text = article.text, !.model_type = article.model_type,
             !.ext = article.ext,
             !.at = IF article.model_type = "transformer" /\ transformer_model
                    THEN "zero_shot" ELSE "check"]]
  /\ UNCHANGED <<disk, punkt, service, exchange, normalized, trainer, saver, curation, loaded>>

\* _predict_transformer: the zero-shot call, and the except branch
CallZeroShot(id) ==
  /\ threads[id].at = "zero_shot"
  /\ threads' =
       IF threads[id].ext.raises
       THEN [threads EXCEPT ![id].at = "check"]
       ELSE Ended(threads, id,
                  predict_transformer(vectorizer, sklearn_model,
                                      threads[id].text, threads[id].ext))
  /\ UNCHANGED <<disk, punkt, service, exchange, normalized, trainer, saver, curation, loaded>>

\* _predict_sklearn, lines 138-139
CallCheck(id) ==
  /\ threads[id].at = "check"
  /\ threads' =
       IF sklearn_model.kind = "None" \/ vectorizer.kind = "None"
       THEN Ended(threads, id, Raised("ValueError: Sklearn model not initialized"))
       ELSE [threads EXCEPT ![id].at = "transform"]
  /\ UNCHANGED <<disk, punkt, service, exchange, normalized, trainer, saver, curation, loaded>>

\* line 143: text_vector = self.vectorizer.transform([text])
CallTransform(id) ==
  /\ threads[id].at = "transform"
  /\ threads' =
       IF vectorizer.kind # "fitted"
       THEN Ended(threads, id, Raised("NotFittedError"))
       ELSE WithVector(threads, id, Transform(vectorizer, threads[id].text))
  /\ UNCHANGED <<disk, punkt, service, exchange, normalized, trainer, saver, curation, loaded>>

\* line 146: prediction = self.sklearn_model.predict(text_vector)[0]
CallPredict(id) ==
  /\ threads[id].at = "predict"
  /\ threads' =
       IF sklearn_model.kind # "fitted"
       THEN Ended(threads, id, Raised("NotFittedError"))
       ELSE IF NFeatures(vectorizer) # sklearn_model.n_features_in_
       THEN Ended(threads, id,
                  Raised("ValueError: X has a different number of features"))
       ELSE [threads EXCEPT
               ![id].prediction = predict_label(sklearn_model, threads[id].x),
               ![id].at = "predict_proba"]
  /\ UNCHANGED <<disk, punkt, service, exchange, normalized, trainer, saver, curation, loaded>>

\* lines 147-167: predict_proba, the dictionary and the return
CallProba(id) ==
  /\ threads[id].at = "predict_proba"
  /\ LET probabilities == predict_proba(sklearn_model, threads[id].x)
     IN threads' =
          IF Len(probabilities) < Len(CATEGORIES)
          THEN Ended(threads, id, Raised("IndexError"))
          ELSE Ended(threads, id,
                     Returned(threads[id].prediction, MaxSeq(probabilities),
                              SortByScore(ConfidenceScores(probabilities)),
                              PosteriorDenom(probabilities), "sklearn"))
  /\ UNCHANGED <<disk, punkt, service, exchange, normalized, trainer, saver, curation, loaded>>

\* the caller has the outcome
CallEnd(id) ==
  /\ threads[id].at = "ended"
  /\ threads' = [threads EXCEPT ![id] = NoThread]
  /\ UNCHANGED <<disk, punkt, service, exchange, normalized, trainer, saver, curation, loaded>>

CallStep(id) ==
  \/ \E article \in CallArticles : CallBegin(id, article)
  \/ CallZeroShot(id)
  \/ CallCheck(id)
  \/ CallTransform(id)
  \/ CallPredict(id)
  \/ CallProba(id)
  \/ CallEnd(id)

NextCalls ==
  \/ \E f \in CsvFiles, seed \in 1..NumSplits : TrainMain(f, seed)
  \/ \E available \in BOOLEAN : Startup(available)
  \/ \E id \in 1..MaxCalls : CallStep(id)

SpecCalls == Init /\ [][NextCalls]_vars

(***************************************************************************)
(* Training beside a live service.  train_model refits the two objects of  *)
(* the service in place and dumps them, statement by statement, while the  *)
(* handlers answer requests; train.py writes the model file while a        *)
(* service starts.  Neither takes a lock, and joblib.dump writes into the  *)
(* file it was given.                                                      *)
(***************************************************************************)
\* line 225: X = self.vectorizer.fit_transform(texts)
TrainModelFitVectorizer(rows) ==
  /\ classifier_service
  /\ vectorizer.kind # "None" /\ sklearn_model.kind # "None"
  /\ trainer.at = "idle"
  /\ trainer' = [at |-> "fit", old |-> Pair(vectorizer, sklearn_model),
                 new |-> train_model(rows)]
  /\ vectorizer' = train_model(rows).vectorizer
  /\ UNCHANGED <<disk, punkt, classifier_service, sklearn_model, transformer_model,
                 exchange, normalized, threads, saver, curation, loaded>>

\* line 228: self.sklearn_model.fit(X, labels)
TrainModelFitClassifier ==
  /\ trainer.at = "fit"
  /\ trainer' = [trainer EXCEPT !.at = "dump_model"]
  /\ sklearn_model' = trainer.new.sklearn_model
  /\ UNCHANGED <<disk, punkt, classifier_service, vectorizer, transformer_model,
                 exchange, normalized, threads, saver, curation, loaded>>

\* line 232: joblib.dump opens sklearn_model.joblib for writing
TrainModelOpenModelFile ==
  /\ trainer.at = "dump_model"
  /\ trainer' = [trainer EXCEPT !.at = "write_model"]
  /\ model_file' = PartialFile
  /\ UNCHANGED <<vectorizer_file, metrics_file, punkt, service, exchange,
                 normalized, threads, saver, curation, loaded>>

\* line 232: the dump is complete
TrainModelCloseModelFile ==
  /\ trainer.at = "write_model"
  /\ trainer' = [trainer EXCEPT !.at = "dump_vectorizer"]
  /\ model_file' = ClassifierFile(sklearn_model)
  /\ UNCHANGED <<vectorizer_file, metrics_file, punkt, service, exchange,
                 normalized, threads, saver, curation, loaded>>

\* line 233: joblib.dump(self.vectorizer, ...)
TrainModelDumpVectorizer ==
  /\ trainer.at = "dump_vectorizer"
  /\ trainer' = [trainer EXCEPT !.at = "finished"]
  /\ vectorizer_file' = vectorizer
  /\ UNCHANGED <<model_file, metrics_file, punkt, service, exchange,
                 normalized, threads, saver, curation, loaded>>

\* train.py main up to save_model line 217: joblib.dump opens
\* sklearn_model.joblib for writing
SaveModelOpen(csv_file, seed) ==
  /\ saver.at = "idle"
  /\ saver' = [at |-> "write_model", old |-> model_file,
               new |-> train(load_data(csv_file), seed)]
  /\ model_file' = PartialFile
  /\ UNCHANGED <<vectorizer_file, metrics_file, punkt, service, exchange,
                 normalized, threads, trainer, curation, loaded>>

\* save_model line 217: the dump is complete
SaveModelClose ==
  /\ saver.at = "write_model"
  /\ saver' = [saver EXCEPT !.at = "dump_metrics"]
  /\ model_file' = saver.new.pipeline
  /\ UNCHANGED <<vectorizer_file, metrics_file, punkt, service, exchange,
                 normalized, threads, trainer, curation, loaded>>

\* save_model line 220: joblib.dump(metrics, ...)
SaveMetrics ==
  /\ saver.at = "dump_metrics"
  /\ saver' = [saver EXCEPT !.at = "finished"]
  /\ metrics_file' = saver.new.metrics
  /\ UNCHANGED <<model_file, vectorizer_file, punkt, service, exchange,
                 normalized, threads, trainer, curation, loaded>>

NextTraining ==
  \/ \E f \in CsvFiles, seed \in 1..NumSplits : TrainMain(f, seed)
  \/ \E available \in BOOLEAN : Startup(available)
  \/ TrainModelFitVectorizer(IndexRows)
  \/ TrainModelFitClassifier
  \/ TrainModelOpenModelFile
  \/ TrainModelCloseModelFile
  \/ TrainModelDumpVectorizer
  \/ \E f \in CsvFiles, seed \in 1..NumSplits : SaveModelOpen(f, seed)
  \/ SaveModelClose
  \/ SaveMetrics
  \/ \E a \in CallArticles : PredictCategory(a)
  \/ Deliver

SpecTraining == Init /\ [][NextTraining]_vars

(***************************************************************************)
(* The dataset curator (src/ml_model): the scripts that write              *)
(* data/news_data_combined.csv.  A frame is a set of column names and a    *)
(* sequence of rows.  A text is the record of its content (id), its length *)
(* in characters (len) and the number of those characters that are         *)
(* whitespace clean_text removes (pad): two texts are the same string when *)
(* the records are equal.  to_csv(index=False) and read_csv do not keep    *)
(* the index of a frame: origin, the position of a row in the frame that   *)
(* drop_duplicates was given, is written by drop_duplicates alone.         *)
(***************************************************************************)
NaN == "NaN"
NaNText == [id |-> 0, len |-> 0, pad |-> 0]

Text(id, len, pad) == [id |-> id, len |-> len, pad |-> pad]

Row(text, category, title) ==
  [text |-> text, category |-> category, title |-> title, origin |-> 0]

\* rows of one category whose texts have the ids first..last
Block(first, last, len, pad, category, title) ==
  [i \in 1..(last - first + 1) |->
     Row(Text(first + i - 1, len, pad), category, title)] \o <<>>

\* pd.isna of the value a row has in a column
Missing(row, column) ==
  IF column = "text" THEN row.text = NaNText ELSE row[column] = NaN

\* the thresholds of the scripts
MinSupportMultisource == 100
MinSupportComprehensive == 50
MinLenCombine == 50
MaxLenMultisource == 20000
MaxLenComprehensive == 15000
MinLenKaggle == 100
MaxLenKaggle == 10000
min_samples == 5000
max_samples == 30000
AugmentTexts == 8
SyntheticTexts == 15

\* the files the download steps leave in data/: bbc_news.csv is the raw
\* download (category, text), ag_news_processed.csv the processed frame,
\* news_category_dataset.csv the raw download (headline, category)
BbcFile ==
  [columns |-> {"category", "text"},
   rows |-> Block(1, 100, 60, 0, "sport", NaN)
            \o Block(101, 103, 60, 0, "tech", NaN)
            \o <<Row(Text(201, 150, 0), NaN, NaN)>>]

AgFile ==
  [columns |-> {"text", "category"},
   rows |-> Block(1, 2, 60, 0, "Business", NaN)
            \o Block(201, 251, 150, 0, "Business", NaN)
            \o <<Row(Text(99, 62, 2), "Sports", NaN),
                 Row(Text(300, 50, 0), "World", NaN),
                 Row(Text(301, 20000, 0), "World", NaN),
                 Row(Text(302, 120, 0), "travel", NaN)>>]

NewsCategoryFile ==
  [columns |-> {"title", "category"},
   rows |-> <<Row(NaNText, "POLITICS", "x"), Row(NaNText, "POLITICS", "y")>>]

\* sogou_news.csv, the raw download: category, text and a further column
SogouFile ==
  [columns |-> {"category", "text", "title"},
   rows |-> Block(501, 600, 60, 0, "sports", "t")]

\* a downloaded file pd.read_csv cannot parse
BrokenFile == [columns |-> {"unparseable"}, rows |-> <<>>]

\* pd.read_csv(dataset_path) returns a frame
Parses(file) == "unparseable" \notin file.columns

\* a source that parses and has the text and category columns
WellFormed(file) == Parses(file) /\ {"text", "category"} \subseteq file.columns

\* the lists of downloaded files main hands to the combine step
DatasetLists ==
  {<<>>, <<BbcFile>>, <<BbcFile, AgFile>>, <<AgFile, BbcFile>>,
   <<BbcFile, AgFile, NewsCategoryFile>>, <<NewsCategoryFile>>,
   <<BbcFile, BrokenFile>>, <<SogouFile>>}

\* str.lower and str.title on the category names that occur
CategoryLower ==
  [c \in {"sport", "tech", "travel", "sports", "business", "world",
          "politics", "technology", "health", "science", "lifestyle",
          "education", "legal", "finance"} |-> c]
    @@ ("Sports" :> "sports") @@ ("Business" :> "business")
    @@ ("World" :> "world") @@ ("POLITICS" :> "politics")
    @@ ("Technology" :> "technology") @@ ("Travel" :> "travel")
    @@ ("Politics" :> "politics") @@ ("Health" :> "health")
    @@ ("Science" :> "science") @@ ("Lifestyle" :> "lifestyle")
    @@ ("Education" :> "education") @@ ("Legal" :> "legal")
    @@ ("Finance" :> "finance")

CategoryTitle ==
  ("sport" :> "Sport") @@ ("tech" :> "Tech") @@ ("travel" :> "Travel")
    @@ ("sports" :> "Sports") @@ ("business" :> "Business")
    @@ ("world" :> "World") @@ ("politics" :> "Politics")
    @@ ("technology" :> "Technology") @@ ("health" :> "Health")
    @@ ("science" :> "Science") @@ ("lifestyle" :> "Lifestyle")
    @@ ("education" :> "Education") @@ ("legal" :> "Legal")
    @@ ("finance" :> "Finance")

\* category_mapping of preprocess_data.normalize_categories
category_mapping ==
  ("technology" :> "Technology") @@ ("tech" :> "Technology")
    @@ ("entertainment" :> "Entertainment") @@ ("sports" :> "Sports")
    @@ ("sport" :> "Sports") @@ ("business" :> "Business")
    @@ ("politics" :> "Politics") @@ ("political" :> "Politics")
    @@ ("health" :> "Health") @@ ("science" :> "Science")
    @@ ("world" :> "World") @@ ("lifestyle" :> "Lifestyle")

\* category_mapping of the two downloaders: three more keys
category_mapping_downloader ==
  category_mapping @@ ("education" :> "Education") @@ ("legal" :> "Legal")
    @@ ("finance" :> "Finance")

\* lambda x: category_mapping.get(x, x.title()) on x = category.lower()
MapCategory(mapping, category) ==
  IF CategoryLower[category] \in DOMAIN mapping THEN mapping[CategoryLower[category]]
  ELSE CategoryTitle[CategoryLower[category]]

\* df['category'].str.lower().map(...); a missing category is mapped to
\* 'Other' by the multisource downloader
normalize_categories(mapping, rows) ==
  [i \in 1..Len(rows) |->
     [rows[i] EXCEPT !.category =
        IF rows[i].category = NaN THEN "Other"
        ELSE MapCategory(mapping, rows[i].category)]] \o <<>>

\* x.title() of a missing category raises AttributeError in the scripts
\* whose lambda does not test pd.notna
NormalizeRaises(rows) == \E i \in 1..Len(rows) : rows[i].category = NaN

RECURSIVE ConcatRows(_)
ConcatRows(frames) ==
  IF frames = <<>> THEN <<>> ELSE Head(frames).rows \o ConcatRows(Tail(frames))

\* pd.concat(all_dfs, ignore_index=True): the union of the columns, a row
\* has NaN in the columns its frame lacks
concat(frames) ==
  [columns |-> UNION {frames[i].columns : i \in 1..Len(frames)},
   rows |-> ConcatRows(frames)]

\* the rows with their positions
Reindex(rows) == [i \in 1..Len(rows) |-> [rows[i] EXCEPT !.origin = i]] \o <<>>

\* a variant that keeps the last row of each text
drop_duplicates_last(rows) ==
  SelectSeq(Reindex(rows),
            LAMBDA r : \A j \in (r.origin + 1)..Len(rows) : rows[j].text # r.text)

\* df.drop_duplicates(subset=['text']): keep='first'.  When no text occurs
\* twice every row is the first of its text.
drop_duplicates(rows) ==
  IF Cardinality({rows[i].text : i \in 1..Len(rows)}) = Len(rows)
  THEN Reindex(rows)
  ELSE SelectSeq(Reindex(rows),
                 LAMBDA r : \A j \in 1..(r.origin - 1) : rows[j].text # r.text)

\* df.dropna(): no missing value in any column of the frame
dropna(columns, rows) ==
  SelectSeq(rows, LAMBDA r : \A c \in columns : ~Missing(r, c))

\* the two filters on text_length
FilterLength(rows, low, high) ==
  SelectSeq(rows, LAMBDA r : r.text # NaNText /\ r.text.len > low /\ r.text.len < high)

\* df['category'].value_counts()
value_counts(rows) ==
  [c \in {rows[i].category : i \in 1..Len(rows)} |->
     Cardinality({i \in 1..Len(rows) : rows[i].category = c})]

\* combined_df[combined_df['category'].isin(valid_categories)]
IsIn(rows, valid_categories) ==
  SelectSeq(rows, LAMBDA r : r.category \in valid_categories)

\* the rows of the categories with at least minimum rows
FilterSupport(rows, minimum) ==
  IsIn(rows, {c \in DOMAIN value_counts(rows) : value_counts(rows)[c] >= minimum})

\* what a stage ends with: raised, or the frame it writes and the rows it
\* gave to drop_duplicates
StageRaised == [ok |-> FALSE, columns |-> {}, rows |-> <<>>, given |-> <<>>]
StageWrites(columns, rows, given) ==
  [ok |-> TRUE, columns |-> columns, rows |-> rows, given |-> given]

\* MultiSourceNewsDownloader.combine_all_datasets (minimum 100, length
\* under 20000) and ComprehensiveNewsDownloader.combine_datasets (minimum
\* 50, length under 15000)
\* combine_all_datasets reads each file in a try of its own and goes on
\* without the one that fails; in combine_datasets the failure leaves the loop
combine_with_support(datasets, high, minimum, maps_missing, skips_unreadable) ==
  IF ~skips_unreadable /\ \E i \in 1..Len(datasets) : ~Parses(datasets[i])
  THEN StageRaised
  ELSE IF SelectSeq(datasets, Parses) = <<>> THEN StageRaised
  ELSE
    LET combined == concat(SelectSeq(datasets, Parses))
    IN  IF "text" \notin combined.columns THEN StageRaised
        ELSE
          LET kept == FilterLength(dropna(combined.columns,
                                          drop_duplicates(combined.rows)),
                                   MinLenCombine, high)
          IN  IF "category" \notin combined.columns THEN StageRaised
              ELSE IF ~maps_missing /\ NormalizeRaises(kept) THEN StageRaised
              ELSE StageWrites(combined.columns,
                     FilterSupport(normalize_categories(category_mapping_downloader, kept),
                                   minimum),
                     combined.rows)

combine_all_datasets(datasets) ==
  combine_with_support(datasets, MaxLenMultisource, MinSupportMultisource, TRUE, TRUE)

combine_datasets(datasets) ==
  combine_with_support(datasets, MaxLenComprehensive, MinSupportComprehensive, FALSE, FALSE)

\* KaggleNewsDownloader.combine_datasets: no normalisation and no minimum
kaggle_combine_datasets(datasets) ==
  IF datasets = <<>> \/ \E i \in 1..Len(datasets) : ~Parses(datasets[i])
  THEN StageRaised
  ELSE
    LET combined == concat(datasets)
    IN  IF "text" \notin combined.columns THEN StageRaised
        ELSE StageWrites(combined.columns,
               FilterLength(dropna(combined.columns, drop_duplicates(combined.rows)),
                            MinLenKaggle, MaxLenKaggle),
               combined.rows)

\* the categories of augment_data.synthetic_data and of SYNTHETIC_NEWS
AugmentCategories ==
  <<"Health", "Science", "World", "Lifestyle", "Education", "Legal", "Finance">>
SyntheticCategories ==
  <<"Politics", "Health", "Science", "World", "Lifestyle", "Education",
    "Legal", "Finance">>

\* [t1, ..., tn] * SynthRepeat for each category in turn; base tells the
\* texts of the two scripts apart (they have no text in common)
SyntheticRows(categories, texts, base) ==
  [i \in 1..(Len(categories) * texts * SynthRepeat) |->
     LET c == ((i - 1) \div (texts * SynthRepeat)) + 1
         t == ((i - 1) % texts) + 1
     IN  Row(Text(base + 20 * c + t, 50, 0), categories[c], NaN)]

\* augment_with_synthetic_data and generate_synthetic_data, lines
\* "combined = pd.concat([df, synthetic_df])" to the save
add_synthetic(df, synthetic) ==
  LET combined == concat(<<df, [columns |-> {"text", "category"}, rows |-> synthetic]>>)
  IN  IF "text" \notin df.columns THEN StageRaised
      ELSE StageWrites(combined.columns, drop_duplicates(combined.rows), combined.rows)

augment_with_synthetic_data(df) ==
  add_synthetic(df, SyntheticRows(AugmentCategories, AugmentTexts, 1000))

generate_synthetic_data(df) ==
  add_synthetic(df, SyntheticRows(SyntheticCategories, SyntheticTexts, 2000))

\* clean_text: strip and ' '.join(text.split()); a missing text becomes ""
clean_text(text) ==
  IF text = NaNText THEN Text(0, 0, 0) ELSE Text(text.id, text.len - text.pad, 0)

\* preprocess_combined_data
preprocess_combined_data(df) ==
  IF ~({"text", "category"} \subseteq df.columns) \/ NormalizeRaises(df.rows)
  THEN StageRaised
  ELSE
    LET cleaned == [i \in 1..Len(df.rows) |->
                      [df.rows[i] EXCEPT !.text = clean_text(@)]]
        nonempty == SelectSeq(cleaned, LAMBDA r : r.text.len > 0)
    IN  StageWrites({"text", "category"},
                    normalize_categories(category_mapping, drop_duplicates(nonempty)),
                    nonempty)

\* shuffle(df, random_state=42) and sample(n, random_state=42): the
\* permutation drawn from the seed depends on the number of rows alone; it
\* is modelled by one permutation that is not the identity, the reversal
Shuffle42(rows) == [i \in 1..Len(rows) |-> rows[Len(rows) + 1 - i]] \o <<>>
Sample42(rows, n) == SubSeq(Shuffle42(rows), 1, n)

\* the position of the first row of a category
FirstRow(rows, category) ==
  CHOOSE i \in 1..Len(rows) :
    rows[i].category = category /\ \A j \in 1..(i - 1) : rows[j].category # category

\* df['category'].unique(): the categories in the order they first appear
UniqueCategories(rows) ==
  LET categories == {rows[i].category : i \in 1..Len(rows)}
      first == [c \in categories |-> FirstRow(rows, c)]
  IN  [k \in 1..Cardinality(categories) |->
         CHOOSE c \in categories :
           Cardinality({d \in categories : first[d] <= first[c]}) = k]

\* a variant of the loop that leaves out the categories under the floor
RECURSIVE BalancedRowsAboveFloor(_, _)
BalancedRowsAboveFloor(rows, categories) ==
  IF categories = <<>> THEN <<>>
  ELSE
    LET cat_df == SelectSeq(rows, LAMBDA r : r.category = Head(categories))
    IN  (IF Len(cat_df) < min_samples THEN <<>>
         ELSE IF Len(cat_df) > max_samples THEN Sample42(cat_df, max_samples)
         ELSE cat_df)
        \o BalancedRowsAboveFloor(rows, Tail(categories))

\* the loop of balance_dataset over the categories
RECURSIVE BalancedRows(_, _)
BalancedRows(rows, categories) ==
  IF categories = <<>> THEN <<>>
  ELSE
    LET cat_df == SelectSeq(rows, LAMBDA r : r.category = Head(categories))
    IN  (IF Len(cat_df) < min_samples THEN cat_df
         ELSE IF Len(cat_df) > max_samples THEN Sample42(cat_df, max_samples)
         ELSE cat_df)
        \o BalancedRows(rows, Tail(categories))

\* balance_dataset; pd.concat raises on an empty list of frames
balance_dataset(df) ==
  IF "text" \notin df.columns THEN StageRaised
  ELSE
    LET clean == dropna(df.columns, drop_duplicates(df.rows))
    IN  IF "category" \notin df.columns \/ clean = <<>> THEN StageRaised
        ELSE StageWrites(df.columns,
                         Shuffle42(BalancedRows(clean, UniqueCategories(clean))),
                         df.rows)

\* the scripts that read news_data_combined.csv and write it again
InPlaceStages ==
  {"augment_with_synthetic_data", "generate_synthetic_data",
   "preprocess_combined_data", "balance_dataset"}

\* to_csv(output_file, index=False) of news_data_combined.csv, and what the
\* run leaves behind: the stage, the minimum support the corpus was
\* combined with, the rows given to drop_duplicates and the positions in
\* them of the rows written.  A stage that raises writes nothing.
Curate(stage, datasets, result, minimum) ==
  /\ curator.stages < MaxStages
  /\ IF result.ok
     THEN /\ corpus_file' =
               [exists |-> TRUE, columns |-> result.columns,
                rows |-> [i \in 1..Len(result.rows) |->
                            [result.rows[i] EXCEPT !.origin = 0]]]
          /\ curator' =
               [stages |-> curator.stages + 1, stage |-> stage,
                min_support |-> minimum, given |-> result.given,
                kept |-> [i \in 1..Len(result.rows) |-> result.rows[i].origin],
                rerun |-> (stage = curator.stage /\ stage \in InPlaceStages),
                before |-> corpus_file,
                last |-> [stage |-> stage, datasets |-> datasets, ok |-> TRUE]]
     ELSE /\ UNCHANGED corpus_file
          /\ curator' = [curator EXCEPT !.stages = @ + 1,
                 !.last = [stage |-> stage, datasets |-> datasets, ok |-> FALSE]]
  /\ UNCHANGED <<disk, punkt, service, exchange, normalized, threads, trainer, saver,
                 loaded>>

CombineAllDatasets(datasets) ==
  /\ \A i \in 1..Len(datasets) : datasets[i].columns # {}
  /\ Curate("combine_all_datasets", datasets, combine_all_datasets(datasets), MinSupportMultisource)

CombineDatasets(datasets) ==
  /\ \A i \in 1..Len(datasets) : datasets[i].columns # {}
  /\ Curate("combine_datasets", datasets, combine_datasets(datasets), MinSupportComprehensive)

KaggleCombineDatasets(datasets) ==
  /\ \A i \in 1..Len(datasets) : datasets[i].columns # {}
  /\ Curate("kaggle_combine_datasets", datasets, kaggle_combine_datasets(datasets), 0)

\* the four scripts that read the corpus file first: pd.read_csv raises
\* when it does not exist
AugmentWithSyntheticData ==
  /\ corpus_file.exists
  /\ Curate("augment_with_synthetic_data", <<>>, augment_with_synthetic_data(corpus_file),
            curator.min_support)

GenerateSyntheticData ==
  /\ corpus_file.exists
  /\ Curate("generate_synthetic_data", <<>>, generate_synthetic_data(corpus_file),
            curator.min_support)

PreprocessCombinedData ==
  /\ corpus_file.exists
  /\ Curate("preprocess_combined_data", <<>>, preprocess_combined_data(corpus_file),
            curator.min_support)

BalanceDataset ==
  /\ corpus_file.exists
  /\ Curate("balance_dataset", <<>>, balance_dataset(corpus_file), curator.min_support)

NextCurator ==
  \/ \E datasets \in DatasetLists : CombineAllDatasets(datasets)
  \/ \E datasets \in DatasetLists : CombineDatasets(datasets)
  \/ \E datasets \in DatasetLists : KaggleCombineDatasets(datasets)
  \/ AugmentWithSyntheticData
  \/ GenerateSyntheticData
  \/ PreprocessCombinedData
  \/ BalanceDataset

SpecCurator == Init /\ [][NextCurator]_vars

\* news_data_large.csv, a download of full size: a category above the ceiling of
\* balance_dataset, one between its floor and its ceiling and one below
\* its floor
BulkFile ==
  [columns |-> {"text", "category"},
   rows |-> Block(100001, 100000 + max_samples + 1, 150, 0, "Business", NaN)
            \o Block(200001, 200000 + min_samples, 150, 0, "World", NaN)
            \o Block(300001, 300010, 150, 0, "Sports", NaN)]

\* combining and balancing, on the lists above and on the full-size file
\* the downloads the balancing runs start from; the full-size file is
\* downloaded into a checkout that has no corpus yet
BalanceLists == {<<BbcFile>>, <<BbcFile, AgFile>>, <<SogouFile>>, <<AgFile, BbcFile>>}

NextBalance ==
  \/ \E datasets \in BalanceLists : CombineAllDatasets(datasets)
  \/ ~corpus_file.exists /\ KaggleCombineDatasets(<<BulkFile>>)
  \/ BalanceDataset

SpecBalance == Init /\ [][NextBalance]_vars

(***************************************************************************)
(* The curator and train.py on one data directory.                         *)
(***************************************************************************)
\* the file every curator stage writes and the file load_data looks for
\* when it is given no argument
CombinedFileName == "news_data_combined.csv"
DefaultFileName == "news_data.csv"

\* the data directory: news_data, the file download_data.py may have left
DataPath(news_data) ==
  (CombinedFileName :> corpus_file.exists) @@ (DefaultFileName :> news_data.exists)

\* train.py main: trainer.load_data(), csv_file = None
LoadData(news_data) ==
  /\ LET csv_file == DefaultFileName
     IN  loaded' = [called |-> TRUE, csv_file |-> csv_file,
                    sample |-> ~DataPath(news_data)[csv_file],
                    curated |-> corpus_file.exists]
  /\ UNCHANGED <<disk, punkt, service, exchange, normalized, threads, trainer, saver,
                 curation>>

NextPipeline ==
  \/ \E datasets \in BalanceLists : CombineAllDatasets(datasets)
  \/ \E datasets \in BalanceLists : KaggleCombineDatasets(datasets)
  \/ PreprocessCombinedData
  \/ BalanceDataset
  \/ \E news_data \in CsvFiles : LoadData(news_data)

SpecPipeline == Init /\ [][NextPipeline]_vars


(***************************************************************************)
(* Properties of the calls a request makes.                                *)
(***************************************************************************)
Trained == vectorizer.kind = "fitted" /\ sklearn_model.kind = "fitted"

\* the classifier came from train.py: its labels are category names
TrainedByTrain == Trained /\ IsStr(sklearn_model.classes_[1])

\* the call reached the zero-shot pipeline
ZeroShotCalled(c) == c.model_type = "transformer" /\ transformer_model

Scores(result) ==
  [i \in 1..Len(result.confidence_scores) |-> result.confidence_scores[i].score]

HasLabel(result, label) ==
  \E i \in 1..Len(result.confidence_scores) : result.confidence_scores[i].label = label

ScoreOf(result, label) ==
  LET i == CHOOSE i \in 1..Len(result.confidence_scores) :
             result.confidence_scores[i].label = label
  IN result.confidence_scores[i].score

UniqueMax(p) == Cardinality({i \in 1..Len(p) : p[i] = MaxSeq(p)}) = 1

BatchAnswered ==
  /\ pc = "done"
  /\ request.endpoint = "/batch-predict"
  /\ classifier_service
  /\ Len(request.articles) <= MaxArticles

ErrorRecords == {i \in 1..Len(response.predictions) : response.predictions[i].is_error}

\* C1 as stated: whenever the zero-shot call raises, predict returns a result
\* of the statistical backend and no exception reaches the caller, in every
\* state of the service.
C1_FallbackNeverRaises ==
  \A c \in Range(calls) :
    (ZeroShotCalled(c) /\ c.ext.raises) =>
      c.result.ok /\ c.result.model_type = "sklearn"

\* C1 amended: whenever the zero-shot call raises, its exception never
\* reaches the caller and predict ends as the statistical path ends on the
\* same text: with a result of the statistical backend when both parts of the
\* model are fitted and the classifier has at least len(CATEGORIES) classes,
\* with the ValueError of the not-initialized check when a part is None, with
\* sklearn's NotFittedError when the unfitted default model is in place, and
\* with an IndexError when the classifier has fewer classes.
C1_FallbackEndsAsSklearn ==
  \A c \in Range(calls) :
    (ZeroShotCalled(c) /\ c.ext.raises) =>
      IF vectorizer.kind = "None" \/ sklearn_model.kind = "None"
      THEN ~c.result.ok /\ c.result.error = "ValueError: Sklearn model not initialized"
      ELSE IF ~Trained
      THEN ~c.result.ok /\ c.result.error = "NotFittedError"
      ELSE IF Len(sklearn_model.classes_) < Len(CATEGORIES)
      THEN ~c.result.ok /\ c.result.error = "IndexError"
      ELSE c.result.ok /\ c.result.model_type = "sklearn"

C1_FallbackAnswered ==
  \E c \in Range(calls) :
    /\ ZeroShotCalled(c) /\ c.ext.raises
    /\ c.result.ok /\ c.result.model_type = "sklearn"

\* C2: a call that asks for the transformer on a service that loaded none
\* returns what the same call asking for sklearn returns.
C2_MissingBackendAsSklearn ==
  \A c \in Range(calls) :
    (c.model_type = "transformer" /\ ~transformer_model) =>
      c.result = predict(vectorizer, sklearn_model, transformer_model,
                         c.text, "sklearn", c.ext)

C2_MissingBackendAnswered ==
  \E c \in Range(calls) :
    /\ c.model_type = "transformer" /\ ~transformer_model /\ ~c.ext.raises
    /\ c.result.ok /\ c.result.model_type = "sklearn"

\* C3 as stated: on a service whose classifier is untrained every predict
\* call raises, whatever the model_type and whatever the zero-shot pipeline
\* does.
C3_UntrainedAlwaysRaises ==
  (classifier_service /\ ~Trained) =>
    \A c \in Range(calls) : ~c.result.ok

\* C3 amended: on a service whose classifier is untrained, every predict call
\* that reaches the statistical path (model_type other than transformer, no
\* zero-shot pipeline loaded, or the zero-shot call raising) raises: the
\* ValueError of the not-initialized check when the load failed, sklearn's
\* NotFittedError when the unfitted default model was created; it never
\* returns a guess.  A call the zero-shot pipeline answers returns that
\* answer.
C3_UntrainedSklearnPathRaises ==
  (classifier_service /\ ~Trained) =>
    \A c \in Range(calls) :
      IF ZeroShotCalled(c) /\ ~c.ext.raises
      THEN c.result.ok /\ c.result.model_type = "transformer"
      ELSE /\ ~c.result.ok
           /\ c.result.error =
                IF sklearn_model.kind = "None"
                THEN "ValueError: Sklearn model not initialized"
                ELSE "NotFittedError"

C3_UntrainedCallRaised ==
  /\ classifier_service /\ ~Trained
  /\ \E c \in Range(calls) :
       /\ c.model_type = "transformer" /\ ~ZeroShotCalled(c)
       /\ ~c.result.ok /\ c.result.error = "NotFittedError"

\* C4 as stated: for a classifier trained by train.py, the category of a
\* result of the statistical path has an entry in confidence_scores, and when
\* the posterior has a unique maximum that entry is strictly above every
\* other entry.
C4_CategoryIsArgMax ==
  \A c \in Range(calls) :
    ( /\ TrainedByTrain
      /\ c.result.ok /\ c.result.model_type = "sklearn"
      /\ UniqueMax(predict_proba(sklearn_model, Transform(vectorizer, c.text))) )
    => /\ HasLabel(c.result, c.result.category)
       /\ \A i \in 1..Len(c.result.confidence_scores) :
            c.result.confidence_scores[i].label # c.result.category
              => c.result.confidence_scores[i].score
                   < ScoreOf(c.result, c.result.category)

\* C5 as stated: the class list of every classifier train.py wrote and the
\* service loaded is CATEGORIES, in the same order.
C5_ClassesAreCategories ==
  (classifier_service /\ TrainedByTrain) => sklearn_model.classes_ = CATEGORIES

\* C6 as stated: the values of confidence_scores of every result of the
\* statistical path sum to 1.
C6_ScoresSumToOne ==
  \A c \in Range(calls) :
    (c.result.ok /\ c.result.model_type = "sklearn") =>
      SumSeq(Scores(c.result)) = c.result.denom

\* C7 as stated: the confidence of every result of the statistical path is
\* the largest value of its confidence_scores.
C7_ConfidenceIsMaxScore ==
  \A c \in Range(calls) :
    (c.result.ok /\ c.result.model_type = "sklearn") =>
      c.result.confidence = MaxSeq(Scores(c.result))

\* C8: a batch of at most 100 articles is answered with one entry per
\* article, in order, each made by a call of its own whatever the earlier
\* calls did; total is the number of articles and successful the number of
\* entries that are not error records.
C8_BatchProcessesEveryItem ==
  BatchAnswered =>
    /\ response.status = 200
    /\ response.total = Len(request.articles)
    /\ Len(response.predictions) = Len(request.articles)
    /\ Len(calls) = Len(request.articles)
    /\ \A i \in 1..Len(request.articles) :
         /\ calls[i].raw = request.articles[i].text
         /\ response.predictions[i].input_text = request.articles[i].text
    /\ response.successful = Len(request.articles) - Cardinality(ErrorRecords)

C8_BatchWentOnAfterFailure ==
  /\ BatchAnswered
  /\ Len(request.articles) = MaxBatch
  /\ response.predictions[1].is_error
  /\ ~response.predictions[MaxBatch].is_error
  /\ response.successful = 1

\* C9 as stated: every empty item of a batch gets an error record; a batch
\* of three whose second item is empty and whose other items are valid, on a
\* service whose classifier is trained, has one error record and
\* successful = 2.
C9_EmptyItemIsError ==
  (BatchAnswered /\ TrainedByTrain /\ Len(sklearn_model.classes_) >= Len(CATEGORIES)) =>
    /\ \A i \in 1..Len(request.articles) :
         request.articles[i].text = <<>> => i \in ErrorRecords
    /\ ( /\ Len(request.articles) = 3
         /\ request.articles[2].text = <<>>
         /\ ~IsBlank(request.articles[1].text)
         /\ ~IsBlank(request.articles[3].text) )
       => ErrorRecords = {2} /\ response.successful = 2

\* C10 as stated: no endpoint calls predict for a raw text that is empty or
\* whitespace only.
C10_NoCallForBlankText ==
  \A c \in Range(calls) : ~IsBlank(c.raw)

\* C11 as stated: an upload to /predict-file whose bytes are not UTF-8, or
\* whose decoded text is empty or whitespace only, is answered with status
\* 400, never 500, and without a call of predict.
C11_MalformedUploadIs400 ==
  ( /\ pc = "done"
    /\ request.endpoint = "/predict-file"
    /\ classifier_service
    /\ (~request.utf8 \/ IsBlank(request.articles[1].text)) )
  => response.status = 400 /\ calls = <<>>

\* C17 as stated: a service running on a model directory that a training
\* operation wrote (save_model of train.py, or train_model of the service)
\* holds the vocabulary and the classifier that were written, fitted and
\* able to predict.
C17_ArtifactRoundTrips ==
  (classifier_service /\ model_file.kind # "missing") =>
    /\ sklearn_model = model_file.classifier
    /\ vectorizer = IF model_file.kind = "pipeline" THEN model_file.tfidf
                    ELSE vectorizer_file
    /\ Trained

\* C18 as stated: the pipeline train.py saves was fitted on every row it
\* was given: the documents its classifier counted are the rows of the
\* training split and of the held-out split together.
C18_ArtifactFittedOnFullSet ==
  (metrics_file.saved /\ model_file.kind = "pipeline") =>
    SumSeq(model_file.classifier.class_count_)
      = metrics_file.train_size + metrics_file.test_size

\* C12 as stated: preprocess_text applied to its own result returns that
\* result.
C12_NormalizeIdempotent ==
  normalized.ran => normalized.again = normalized.output

\* C13 as stated: when a step of preprocess_text fails, the value returned is
\* the input text, unmodified.
C13_FailureReturnsInput ==
  (normalized.ran /\ normalized.failed) => normalized.output = normalized.input

\* C14 as stated: preprocess_text of a text that is not empty is not empty.
C14_NonEmptyStaysNonEmpty ==
  (normalized.ran /\ normalized.input # <<>>) => normalized.output # <<>>

C15_NoPartialArtifact ==
  /\ trainer.at # "idle" =>
       \A c \in Range(calls) :
         \/ c.result = predict(trainer.old.vectorizer, trainer.old.sklearn_model,
                               transformer_model, c.text, c.model_type, c.ext)
         \/ c.result = predict(trainer.new.vectorizer, trainer.new.sklearn_model,
                               transformer_model, c.text, c.model_type, c.ext)
  /\ (classifier_service /\ trainer.at = "idle" /\ saver.at # "idle") =>
       \/ Pair(vectorizer, sklearn_model) = LoadSklearnModel(saver.old)
       \/ Pair(vectorizer, sklearn_model) = LoadSklearnModel(saver.new.pipeline)

\* C19 as stated: after every curator stage, every category of the corpus
\* file has at least as many rows as the minimum support the corpus was
\* combined with (100 in combine_all_datasets, 50 in combine_datasets).
C19_MinimumSupport ==
  corpus_file.exists =>
    \A c \in DOMAIN value_counts(corpus_file.rows) :
      value_counts(corpus_file.rows)[c] >= curator.min_support

\* C20: after every curator stage no two rows of the corpus file have the
\* same text, and each row written is the first row with its text among
\* the rows the stage gave to drop_duplicates, in their order.
C20_FirstOfEachTextKept ==
  corpus_file.exists =>
    /\ Cardinality({corpus_file.rows[i].text : i \in 1..Len(corpus_file.rows)})
         = Len(corpus_file.rows)
    /\ \A i \in 1..Len(corpus_file.rows) :
         /\ curator.kept[i] \in 1..Len(curator.given)
         /\ curator.given[curator.kept[i]].text = corpus_file.rows[i].text
         /\ \A j \in 1..(curator.kept[i] - 1) :
              curator.given[j].text # corpus_file.rows[i].text

\* preprocess_combined_data made two texts of the corpus equal by
\* clean_text, and wrote that text
C20_DuplicateDropped ==
  /\ corpus_file.exists
  /\ curator.stage = "preprocess_combined_data"
  /\ \E i \in 1..Len(curator.given), j \in 1..Len(curator.given) :
       /\ i < j
       /\ curator.given[i].text = curator.given[j].text
       /\ \E k \in 1..Len(corpus_file.rows) :
            corpus_file.rows[k].text = curator.given[i].text

\* C21 as stated: a curator stage that is run again, on the file its own
\* last run wrote, writes the same file: same rows, same order, same
\* columns.
C21_RerunWritesSameFile ==
  curator.rerun => corpus_file = curator.before

\* what the last combine step would write from its well-formed sources alone
C22_FromWellFormed ==
  IF curator.last.stage = "combine_all_datasets"
  THEN combine_all_datasets(SelectSeq(curator.last.datasets, WellFormed))
  ELSE combine_datasets(SelectSeq(curator.last.datasets, WellFormed))

\* C22 as stated: when combine_all_datasets or combine_datasets is handed a
\* source that does not parse or lacks the text or category column beside
\* well-formed sources, it does not fail, and every row the well-formed
\* sources alone would give is in the corpus file.
C22_OnlyBadSourceSkipped ==
  (/\ curator.last.stage \in {"combine_all_datasets", "combine_datasets"}
   /\ C22_FromWellFormed.ok) =>
    /\ curator.last.ok
    /\ \A i \in 1..Len(C22_FromWellFormed.rows) :
         \E j \in 1..Len(corpus_file.rows) :
           /\ corpus_file.rows[j].text = C22_FromWellFormed.rows[i].text
           /\ corpus_file.rows[j].category = C22_FromWellFormed.rows[i].category

\* C23 as stated: every corpus file a curator stage writes has exactly the
\* two columns text and category.
C23_TwoColumns ==
  corpus_file.exists => corpus_file.columns = {"text", "category"}

\* C27 as stated: a text that some source row of the last combine step
\* carries with a category, with a qualifying length, and whose category has
\* the minimum support in the corpus written, is in the corpus file.
C27_TextNotShadowed ==
  (curator.last.ok /\ curator.last.stage \in {"combine_all_datasets", "combine_datasets"}) =>
    \A i \in 1..Len(curator.given) :
      (/\ curator.given[i].text # NaNText
       /\ curator.given[i].category # NaN
       /\ curator.given[i].text.len > MinLenCombine
       /\ curator.given[i].text.len <
            (IF curator.last.stage = "combine_all_datasets"
             THEN MaxLenMultisource ELSE MaxLenComprehensive)
       /\ \E k \in 1..Len(corpus_file.rows) :
            corpus_file.rows[k].category =
              MapCategory(category_mapping_downloader, curator.given[i].category))
      => \E k \in 1..Len(corpus_file.rows) :
           corpus_file.rows[k].text = curator.given[i].text

\* the categories whose posterior is the largest for the text of a call
C24_Tied(text) ==
  LET p == predict_proba(sklearn_model, Transform(vectorizer, text))
  IN  {sklearn_model.classes_[k] : k \in {j \in 1..Len(p) : p[j] = MaxSeq(p)}}

\* C24 as stated: when a call answered by the statistical model, trained on
\* category names, finds two or more categories with the same largest
\* posterior, the category returned is the tied one that comes first in
\* CATEGORIES.
C24_TieGoesToLowestIndex ==
  (pc = "done" /\ Trained /\ \A k \in 1..Len(sklearn_model.classes_) :
                                IsStr(sklearn_model.classes_[k])) =>
    \A n \in 1..Len(calls) :
      (/\ calls[n].result.ok
       /\ calls[n].result.model_type = "sklearn"
       /\ Cardinality(C24_Tied(calls[n].text)) >= 2) =>
        \E i \in 1..Len(CATEGORIES) :
          /\ CATEGORIES[i] = calls[n].result.category
          /\ CATEGORIES[i] \in C24_Tied(calls[n].text)
          /\ \A j \in 1..(i - 1) : CATEGORIES[j] \notin C24_Tied(calls[n].text)

\* C25: a call that asks for the transformer, with the pipeline loaded and
\* answering, returns the answer as it is: one score per returned label, in
\* the returned order and with the returned value, the first label and its
\* score as category and confidence, model_type "transformer"; whatever the
\* state of the statistical model.
C25_BuiltFromAnswer ==
  (pc = "done" /\ transformer_model) =>
    \A n \in 1..Len(calls) :
      (calls[n].model_type = "transformer" /\ ~calls[n].ext.raises) =>
        /\ calls[n].result.ok
        /\ calls[n].result.model_type = "transformer"
        /\ calls[n].result.category = calls[n].ext.labels[1]
        /\ calls[n].result.confidence = calls[n].ext.scores[1]
        /\ calls[n].result.denom = 1000
        /\ Len(calls[n].result.confidence_scores) = Len(calls[n].ext.labels)
        /\ \A i \in 1..Len(calls[n].ext.labels) :
             /\ calls[n].result.confidence_scores[i].label = calls[n].ext.labels[i]
             /\ calls[n].result.confidence_scores[i].score = calls[n].ext.scores[i]

\* the pipeline answered a call while the statistical model could not have:
\* it is not fitted
C25_AnsweredWithoutClassifier ==
  /\ pc = "done" /\ transformer_model /\ ~Trained
  /\ \E n \in 1..Len(calls) :
       /\ calls[n].model_type = "transformer" /\ ~calls[n].ext.raises
       /\ calls[n].result.ok
       /\ calls[n].result.category = "Politics"

\* the rows balance_dataset had after drop_duplicates and dropna, in its
\* last run
C26_Input ==
  dropna(curator.before.columns, drop_duplicates(curator.before.rows))

\* the rows balance_dataset leaves of categories with these numbers of rows
C26_Expected(counts) ==
  [c \in DOMAIN counts |->
     IF counts[c] > max_samples THEN max_samples ELSE counts[c]]

C28_HealthyServiceAnswers ==
  (health_check.status = "healthy" /\ health_check.model_loaded) =>
    /\ vectorizer.kind = "fitted" /\ sklearn_model.kind = "fitted"
    /\ (/\ pc = "done" /\ request.endpoint = "/predict"
        /\ ~IsBlank(request.articles[1].text)
        /\ request.articles[1].model_type = "sklearn")
         => response.status # 500

\* C29: every result predict returns has a category of CATEGORIES and
\* confidence_scores whose keys are all categories of CATEGORIES.
C29_ResultWithinCategories ==
  \A n \in 1..Len(calls) :
    calls[n].result.ok =>
      /\ calls[n].result.category \in Range(CATEGORIES)
      /\ \A i \in 1..Len(calls[n].result.confidence_scores) :
           calls[n].result.confidence_scores[i].label \in Range(CATEGORIES)

\* C30: when the curator's corpus file exists, load_data with its default
\* argument reads that file and does not return the sample data.
C30_TrainerReadsCorpus ==
  (loaded.called /\ loaded.curated) =>
    loaded.csv_file = CombinedFileName /\ ~loaded.sample

=============================================================================
